---------------------------- MODULE Spec2Model ----------------------------
(***************************************************************************)
(* Model of securebootfuzzer: the coordinator (main.py) driving a pool of  *)
(* VirtualMachine guests (Machine/VirtualMachine.py), each with its own    *)
(* health-monitor task, under asyncio's cooperative scheduling.            *)
(*                                                                         *)
(* One action is one task step: the code that runs between two             *)
(* suspension points (awaits that really suspend).  The coordinator is     *)
(* the task running main(); every guest has one monitor task.  The         *)
(* environment (the hypervisor process, the control channel, the           *)
(* debugger, the filesystem) supplies the outcome of every awaited call.   *)
(*                                                                         *)
(* The configuration is taken to be valid: the constructor's checks        *)
(* (VirtualMachine.py:40-49) pass for every guest.                         *)
(***************************************************************************)
EXTENDS Integers, Sequences, FiniteSets, TLC

\* ------------------------------------------------------------- bounds
\* The largest args.concurrent_vms, the number of guests main() brings up.
NumGuests == 2
\* Most events the hypervisor processes produce in one run: a line written
\* to the error stream, or a process exiting by itself.
MaxEvents == 2
\* Most job descriptors in one query-jobs reply.
MaxReplyLen == 1
\* Most failures of external calls (the filesystem, the debugger, the control
\* channel of a live guest, kill) the environment injects in one run.
MaxFaults == 1
\* Guest identities the pruning specification draws its lists from.
MaxPruneGuests == 3

\* ------------------------------------------------- program constants
\* for i in range(5): the number of fuzzing rounds.
NumRounds == 5
\* for i in range(3): the number of connection attempts.
ConnectAttempts == 3
\* if i != 4: the index compared against in the except branch.
LastAttemptIndex == 4
\* --concurrent-vms, default=1
DefaultVms == 1
\* find_available_port(start = 8000, end = 9999)
PortStart == 8000
PortEnd == 9999

Guests == 1..NumGuests

\* qemu_process.returncode: None while the process runs.
RcNone == "None"
ExitCodes == {"0", "1"}

\* ---------------------------------------------------------- variables
VARIABLES
  concurrent_vms,  \* args.concurrent_vms
  guests,          \* main(): the list `guests`
  phase,           \* main(): "bringup" | "fuzz" | "final"
  mainpc,          \* the await at which the coordinator is suspended
  cur,             \* the guest whose method the coordinator is inside
  idx,             \* position of the for loop over the pruned list
  round,           \* the fuzzing round, i of `for i in range(5)`
  conn_failures,   \* start(): failed connect attempts of the current guest
  curJob,          \* job_id of the save/load the coordinator is inside
  mainErr,         \* the exception that ended main(), if any
  qemu_process,    \* per guest: self.qemu_process is not None
  returncode,      \* per guest: the process's returncode
  health_monitor,  \* per guest: self._health_monitor is not None
  monpc,           \* per guest: where the monitor task is
  lines,           \* per guest: the monitor's local list `lines`
  job_counter,     \* per guest: self.job_counter
  qmp,             \* per guest: run state of self.qmp_client
  ovmf_process,    \* per guest: self.ovmf_process is not None
  gdb_port,        \* per guest: self.gdb_port
  cpu,             \* per guest: the guest's CPU: "none" | "halted" | "running"
  \* history variables, read only by the properties
  cbCount,         \* per guest: calls of on_health_degradation_callback
  issued,          \* per guest: the job ids issued, in order
  steps,           \* per guest: cleanup steps shutdown() has attempted
  sd,              \* per guest: progress of the last shutdown() call
  termStatus,      \* status of curJob in the first reply showing it terminal
  waitOutcome,     \* how the current _wait_job ended
  lastExec,        \* the last qmp_client.execute call and the handle then
  guests_before,   \* the list as it was when prune_dead_guests was entered
  lastRead,        \* per guest: what the monitor's last readline returned
  saved,           \* per guest: its save_snapshot has returned
  otherSeen,       \* a reply of the call in progress, or of the call that
                   \* returned last, showed another job terminal
  faults,          \* failures of external calls injected so far
  events           \* events the hypervisor processes have produced so far

vars == << concurrent_vms, guests, phase, mainpc, cur, idx, round, conn_failures, curJob,
           mainErr, qemu_process, returncode, health_monitor, monpc, lines,
           job_counter, qmp, ovmf_process, gdb_port, cbCount, issued, steps,
           sd, termStatus, waitOutcome, lastExec, guests_before, faults,
           events, cpu, lastRead, saved, otherSeen >>

\* ------------------------------------------------------------- values
NoJobId == [kind |-> "none", n |-> 0]
NoJob == [id |-> NoJobId, status |-> "none"]
NoExc == [type |-> "", job |-> NoJob]

\* f"sbf-{kind}-{counter}": the kind and the counter determine the string.
JobId(kind, counter) == [kind |-> kind, n |-> counter]
\* An identifier of a job that is not the one waited for.
OtherJobId == [kind |-> "other", n |-> 0]

CleanupSteps == {"detach", "cancel", "kill", "disconnect", "rm_sock", "rm_disk"}

\* The program state as one record, so that a step is a composition of the
\* functions that model the methods it runs through.  exc is the exception
\* in flight (none when its type is "").
State ==
  [ concurrent_vms |-> concurrent_vms, guests |-> guests, phase |-> phase, mainpc |-> mainpc, cur |-> cur,
    idx |-> idx, round |-> round, conn_failures |-> conn_failures,
    curJob |-> curJob, mainErr |-> mainErr, qemu_process |-> qemu_process,
    returncode |-> returncode, health_monitor |-> health_monitor,
    monpc |-> monpc, lines |-> lines, job_counter |-> job_counter,
    qmp |-> qmp, ovmf_process |-> ovmf_process, gdb_port |-> gdb_port,
    cbCount |-> cbCount, issued |-> issued, steps |-> steps, sd |-> sd,
    termStatus |-> termStatus, waitOutcome |-> waitOutcome,
    lastExec |-> lastExec, guests_before |-> guests_before,
    faults |-> faults, events |-> events, cpu |-> cpu,
    lastRead |-> lastRead, saved |-> saved, otherSeen |-> otherSeen,
    exc |-> NoExc ]

Apply(t) ==
  /\ t.faults <= MaxFaults
  /\ faults' = t.faults
  /\ concurrent_vms' = t.concurrent_vms
  /\ t.events <= MaxEvents
  /\ events' = t.events
  /\ guests' = t.guests
  /\ phase' = t.phase
  /\ mainpc' = t.mainpc
  /\ cur' = t.cur
  /\ idx' = t.idx
  /\ round' = t.round
  /\ conn_failures' = t.conn_failures
  /\ curJob' = t.curJob
  /\ mainErr' = t.mainErr
  /\ qemu_process' = t.qemu_process
  /\ returncode' = t.returncode
  /\ health_monitor' = t.health_monitor
  /\ monpc' = t.monpc
  /\ lines' = t.lines
  /\ job_counter' = t.job_counter
  /\ qmp' = t.qmp
  /\ ovmf_process' = t.ovmf_process
  /\ gdb_port' = t.gdb_port
  /\ cbCount' = t.cbCount
  /\ issued' = t.issued
  /\ steps' = t.steps
  /\ sd' = t.sd
  /\ termStatus' = t.termStatus
  /\ waitOutcome' = t.waitOutcome
  /\ lastExec' = t.lastExec
  /\ guests_before' = t.guests_before
  /\ cpu' = t.cpu
  /\ lastRead' = t.lastRead
  /\ saved' = t.saved
  /\ otherSeen' = t.otherSeen

Raise(s, type) == [s EXCEPT !.exc = [type |-> type, job |-> NoJob]]
RaiseJob(s, type, job) == [s EXCEPT !.exc = [type |-> type, job |-> job]]
Raised(s) == s.exc.type # ""
\* An external call fails: the exception comes from the environment.
Fail(s, type) == Raise([s EXCEPT !.faults = @ + 1], type)


\* The hypervisor process of g runs: it serves its control channel and its
\* debug stub.
Alive(s, g) == s.qemu_process[g] /\ s.returncode[g] = RcNone

\* ------------------------------------------- VirtualMachine: shutdown
Attempt(s, g, step) == [s EXCEPT !.steps[g] = @ \cup {step}]

\* Task.cancel() on the guest's monitor task.  A task suspended in readline
\* receives CancelledError there and ends; the task that cancels itself
\* keeps running until its next suspension.
cancel(s, g, caller) ==
  IF caller = "main" /\ s.monpc[g] = "read"
  THEN [s EXCEPT !.monpc[g] = "cancelled", !.lines[g] = << >>]
  ELSE s

\* shutdown(), lines 307-329: from the entry to the suspension in
\* qmp_client.disconnect().  killOk: Process.kill() raises ProcessLookupError
\* when the transport of an exited process is already closed (~killOk), which
\* can happen only once the process has exited.
shutdown_enter(s, g, caller, killOk) ==
  IF ~s.qemu_process[g] THEN Raise(s, "AssertionError")
  ELSE
    LET s1 == Attempt([s EXCEPT !.sd[g] = "running", !.steps[g] = {},
                                !.ovmf_process[g] = FALSE], g, "detach")
        s2 == Attempt(s1, g, "cancel")
    IN IF ~s.health_monitor[g]   \* None.cancel()
       THEN Raise([s2 EXCEPT !.sd[g] = "raised"], "AttributeError")
       ELSE
         LET s3 == [cancel(s2, g, caller) EXCEPT !.health_monitor[g] = FALSE]
             s4 == Attempt(s3, g, "kill")
         IN IF ~killOk /\ s.returncode[g] # RcNone
            THEN Fail([s4 EXCEPT !.sd[g] = "raised"], "ProcessLookupError")
            ELSE Attempt([s4 EXCEPT !.qemu_process[g] = FALSE,
                                    !.qmp[g] = IF @ = "running" THEN "closed" ELSE @],
                         g, "disconnect")

\* shutdown(), lines 330-341: from the return (or the exception, which the
\* bare except swallows) of disconnect() to the end.
shutdown_finish(s, g, sockOk, diskOk) ==
  LET s1 == Attempt(s, g, "rm_sock")
  IN IF ~sockOk THEN Fail([s1 EXCEPT !.sd[g] = "raised"], "OSError")
     ELSE LET s2 == Attempt(s1, g, "rm_disk")
          IN IF ~diskOk THEN Fail([s2 EXCEPT !.sd[g] = "raised"], "OSError")
             ELSE [s2 EXCEPT !.gdb_port[g] = 0, !.sd[g] = "returned"]

\* ------------------------------------- VirtualMachine: health monitor
\* The lines the model feeds a monitor, as sequences of characters.
LineOk == << "o", "k" >>
LineError == << "E", "r", "r", "o", "r" >>
MonitorLines == {LineOk, LineError}
EndOfStream == << >>
\* Nothing read yet.
NoLine == << "-" >>

Markers ==
  { << "c", "a", "n", "n", "o", "t", " ", "s", "e", "t", " ", "u", "p" >>,
    << "e", "r", "r", "o", "r" >>,
    << "i", "n", "v", "a", "l", "i", "d" >> }

Upper == << "A", "B", "C", "D", "E", "I", "L", "N", "O", "P", "R", "S", "T", "U", "V" >>
Lower == << "a", "b", "c", "d", "e", "i", "l", "n", "o", "p", "r", "s", "t", "u", "v" >>

\* The message compared as it is, capitals included.
lower_unchanged(message) == message

\* str.lower(), on the letters the markers are made of.
lower(message) ==
  [ i \in 1..Len(message) |->
      IF \E k \in 1..Len(Upper) : Upper[k] = message[i]
      THEN Lower[CHOOSE k \in 1..Len(Upper) : Upper[k] = message[i]]
      ELSE message[i] ]

\* marker in message
Contains(message, marker) ==
  \E i \in 0..(Len(message) - Len(marker)) :
    \A j \in 1..Len(marker) : message[i + j] = marker[j]

\* The condition of lines 127-132.
IsFatal(message, rc) ==
  \/ \E m \in Markers : Contains(lower(message), m)
  \/ (rc # RcNone /\ rc # "0")

\* The loop without its break: the monitor goes back to readline.
monitor_break_missing(s, g) == [s EXCEPT !.monpc[g] = "read"]

\* Lines 145 and 124: break, the coroutine returns and the task is done.
monitor_break(s, g) == [s EXCEPT !.monpc[g] = "done", !.lines[g] = << >>]

\* An exception leaving _health_monitor_proc ends the task.
monitor_fail(s, g) ==
  [s EXCEPT !.monpc[g] = "failed", !.lines[g] = << >>, !.exc = NoExc]

\* The monitor calls shutdown(): lines 123 and 144.
monitor_shutdown(s, g, killOk) ==
  LET t == shutdown_enter(s, g, "monitor", killOk)
  IN IF Raised(t) THEN monitor_fail(t, g)
     ELSE [t EXCEPT !.monpc[g] = "disconnect"]

\* The loop that takes the end of the stream for a fatal line.
monitor_line_eof_fatal(s, g, message, killOk) ==
  LET s0 == [s EXCEPT !.lastRead[g] = message]
      s1 == IF message = EndOfStream THEN s0
            ELSE [s0 EXCEPT !.lines[g] = Append(@, message)]
  IN IF message = EndOfStream \/ IsFatal(message, s.returncode[g])
     THEN monitor_shutdown([s1 EXCEPT !.cbCount[g] = @ + 1], g, killOk)
     ELSE s1

\* One iteration of the loop of lines 119-147, resumed with the line read.
monitor_line(s, g, message, killOk) ==
  LET s0 == [s EXCEPT !.lastRead[g] = message]
  IN IF message = EndOfStream THEN monitor_shutdown(s0, g, killOk)
     ELSE
       LET s1 == [s0 EXCEPT !.lines[g] = Append(@, message)]
       IN IF IsFatal(message, s.returncode[g])
          THEN monitor_shutdown([s1 EXCEPT !.cbCount[g] = @ + 1], g, killOk)
          ELSE s1

\* The monitor resumes inside shutdown() after disconnect(), then breaks.
monitor_resume_shutdown(s, g, sockOk, diskOk) ==
  LET t == shutdown_finish(s, g, sockOk, diskOk)
  IN IF Raised(t) THEN monitor_fail(t, g) ELSE monitor_break(t, g)


\* ------------------------------------ VirtualMachine: control channel
\* qmp_client.execute(cmd): the call itself.  A client that is not connected
\* refuses the command at once; otherwise the caller suspends for the reply.
execute(s, g, cmd) ==
  LET t == [s EXCEPT !.lastExec =
              [guest |-> g, cmd |-> cmd, handle |-> s.qemu_process[g]]]
  IN IF s.qmp[g] # "running" THEN Raise(t, "StateError") ELSE t

JobStatuses == {"running", "concluded", "failed", "aborted", "error"}
FailedStatuses == {"failed", "aborted", "error"}

\* The loop with "aborted" left out of the statuses that raise.
RECURSIVE JobScanNoAborted(_, _, _)
JobScanNoAborted(jobs, job_id, i) ==
  IF i > Len(jobs) THEN [result |-> "again", job |-> NoJob]
  ELSE LET job == jobs[i]
       IN IF job.id = job_id /\ job.status = "concluded"
          THEN [result |-> "return", job |-> job]
          ELSE IF job.id = job_id /\ job.status \in {"failed", "error"}
               THEN [result |-> "raise", job |-> job]
               ELSE JobScanNoAborted(jobs, job_id, i + 1)

\* The loop that takes the status of any job for the status waited for.
RECURSIVE JobScanAnyId(_, _, _)
JobScanAnyId(jobs, job_id, i) ==
  IF i > Len(jobs) THEN [result |-> "again", job |-> NoJob]
  ELSE LET job == jobs[i]
       IN IF job.status = "concluded"
          THEN [result |-> "return", job |-> job]
          ELSE IF job.status \in FailedStatuses
               THEN [result |-> "raise", job |-> job]
               ELSE JobScanAnyId(jobs, job_id, i + 1)

\* The for loop of lines 154-160 over one reply, from position i on:
\* "return", "raise" (with the job raised) or "again" (poll once more).
RECURSIVE JobScan(_, _, _)
JobScan(jobs, job_id, i) ==
  IF i > Len(jobs) THEN [result |-> "again", job |-> NoJob]
  ELSE LET job == jobs[i]
       IN IF job.id = job_id /\ job.status = "concluded"
          THEN [result |-> "return", job |-> job]
          ELSE IF job.id = job_id /\ job.status \in FailedStatuses
               THEN [result |-> "raise", job |-> job]
               ELSE JobScan(jobs, job_id, i + 1)

\* _wait_job, lines 150-152: the entry, up to the first query-jobs.
wait_job_enter(s, g, job_id) ==
  IF ~s.qemu_process[g] THEN Raise(s, "AssertionError")
  ELSE LET t == execute([s EXCEPT !.termStatus = "none", !.otherSeen = FALSE,
                                  !.waitOutcome = "none"], g, "query-jobs")
       IN IF Raised(t) THEN t ELSE [t EXCEPT !.mainpc = "poll"]

\* History: the status of job_id in this reply if it is the first reply in
\* which the job is terminal.
ObserveReply(s, jobs, job_id) ==
  LET terminal == { i \in 1..Len(jobs) :
                      /\ jobs[i].id = job_id
                      /\ jobs[i].status \in FailedStatuses \cup {"concluded"} }
      other == \E i \in 1..Len(jobs) :
                 /\ jobs[i].id # job_id
                 /\ jobs[i].status \in FailedStatuses \cup {"concluded"}
      s1 == [s EXCEPT !.otherSeen = @ \/ other]
  IN IF s.termStatus = "none" /\ terminal # {}
     THEN [s1 EXCEPT !.termStatus =
             jobs[CHOOSE i \in terminal : \A k \in terminal : i <= k].status]
     ELSE s1

\* _wait_job, lines 152-160: resumed with the reply of query-jobs.  The
\* result is the state with waitOutcome "returned", an exception, or the
\* coordinator suspended in the next query-jobs.
wait_job_reply(s, g, job_id, jobs) ==
  LET s1 == ObserveReply(s, jobs, job_id)
      r == JobScan(jobs, job_id, 1)
  IN IF r.result = "return"
     THEN [s1 EXCEPT !.waitOutcome = "returned",
                     !.saved[g] = @ \/ job_id.kind = "save_snapshot"]
     ELSE IF r.result = "raise"
          THEN RaiseJob([s1 EXCEPT !.waitOutcome = "raised"], "RuntimeError", r.job)
          ELSE LET t == execute(s1, g, "query-jobs")
               IN IF Raised(t) THEN t ELSE [t EXCEPT !.mainpc = "poll"]

\* The counter left as it is.
SameJobCounter(c) == c

\* self.job_counter += 1
NextJobCounter(c) == c + 1

\* save_snapshot / load_snapshot, lines 164-174 and 179-189: from the entry
\* to the suspension in execute.
snapshot_enter(s, g, kind) ==
  IF ~s.qemu_process[g] THEN Raise(s, "AssertionError")
  ELSE LET c == NextJobCounter(s.job_counter[g])
           job_id == JobId(kind, c)
           s1 == [s EXCEPT !.job_counter[g] = c,
                           !.issued[g] = Append(@, job_id),
                           !.curJob = job_id, !.cur = g,
                           !.otherSeen = FALSE]
           t == execute(s1, g, IF kind = "save_snapshot"
                               THEN "snapshot-save" ELSE "snapshot-load")
       IN IF Raised(t) THEN t ELSE [t EXCEPT !.mainpc = "submit"]

save_snapshot(s, g) == snapshot_enter(s, g, "save_snapshot")
load_snapshot(s, g) == snapshot_enter(s, g, "load_snapshot")

\* resume(), lines 193-198.
resume(s, g, lldbOk) ==
  IF ~(s.qemu_process[g] /\ s.ovmf_process[g]) THEN Raise(s, "AssertionError")
  ELSE IF ~lldbOk THEN Fail(s, "RuntimeError")
  ELSE [s EXCEPT !.cpu[g] = "running"]

\* ---------------------------------------------- VirtualMachine: start
\* find_available_port: the first port of the range nothing is bound to.
RECURSIVE find_available_port(_, _)
find_available_port(port, busy) ==
  IF port > PortEnd THEN 0
  ELSE IF port \notin busy THEN port
  ELSE find_available_port(port + 1, busy)

\* Ports on which a running hypervisor's debug stub listens.
BusyPorts(s) ==
  { s.gdb_port[h] : h \in { k \in DOMAIN s.gdb_port : Alive(s, k) } }

\* start(), line 212: suspended in _create_qcow2_vmstate_disk.
start_enter(s, g) == [s EXCEPT !.cur = g, !.mainpc = "mkdisk"]

\* start(), lines 212-278: the disk exists; pick the port, spawn.
start_disk_made(s, g, diskOk) ==
  IF ~diskOk THEN Fail(s, "RuntimeError")
  ELSE LET port == find_available_port(PortStart, BusyPorts(s))
       IN IF port = 0 THEN Raise(s, "AssertionError")
          ELSE [s EXCEPT !.gdb_port[g] = port, !.mainpc = "spawn"]

\* start(), lines 278-290: the process is spawned, the monitor task is
\* created (it runs up to its first readline), the first connect begins.
start_spawned(s, g, spawnOk) ==
  IF ~spawnOk THEN Fail(s, "OSError")
  ELSE [s EXCEPT !.qemu_process[g] = TRUE, !.returncode[g] = RcNone,
                 !.cpu[g] = "halted",   \* -S, line 231
                 !.health_monitor[g] = TRUE, !.monpc[g] = "read",
                 !.conn_failures = 0, !.mainpc = "connect"]

\* The attach that shuts the guest down when it fails.
start_init_debugger_teardown(s, g, dbgOk) ==
  IF ~Alive(s, g) THEN Raise(s, "RuntimeError")
  ELSE IF ~dbgOk THEN Fail(shutdown_enter(s, g, "main", TRUE), "RuntimeError")
  ELSE [s EXCEPT !.ovmf_process[g] = TRUE]

\* start(), lines 304-305: _init_debugger, which never suspends.  The stub
\* of a process that is gone refuses the connection.
start_init_debugger(s, g, dbgOk) ==
  IF ~Alive(s, g) THEN Raise(s, "RuntimeError")
  ELSE IF ~dbgOk THEN Fail(s, "RuntimeError")
  ELSE [s EXCEPT !.ovmf_process[g] = TRUE]

\* execute raises: the channel of a guest that runs reports an error, or
\* the channel of a guest that is gone breaks.
execute_error(s, g) ==
  IF Alive(s, g) /\ s.qmp[g] = "running" THEN Fail(s, "ProtocolError")
  ELSE Raise(s, "ProtocolError")

\* start(), lines 292-302: the except branch of attempt i (from 0).  The
\* result is suspended in the sleep, suspended in shutdown(), or has
\* mainpc "start_return": start() returned at line 302.
start_connect_failed(s, g, i, killOk) ==
  IF i # LastAttemptIndex
  THEN [s EXCEPT !.conn_failures = i + 1, !.mainpc = "connect_sleep"]
  ELSE IF s.qemu_process[g]
       THEN LET t == shutdown_enter(s, g, "main", killOk)
            IN IF Raised(t) THEN t ELSE [t EXCEPT !.mainpc = "shutdown_disconnect"]
       ELSE [s EXCEPT !.mainpc = "start_return"]

\* start(), lines 288 and 295-296: after the sleep, `continue`: the next
\* attempt, or the end of the loop and line 304.
start_after_sleep(s, g, dbgOk) ==
  IF s.conn_failures < ConnectAttempts
  THEN [s EXCEPT !.mainpc = "connect"]
  ELSE start_init_debugger(s, g, dbgOk)


\* --------------------------------------------------------------- main
\* The filter on the handle alone.
prune_by_handle(s) ==
  LET Keep(g) == s.qemu_process[g]
  IN [s EXCEPT !.guests_before = s.guests,
               !.guests = SelectSeq(s.guests, Keep)]

\* The filter that also drops the handle of every guest it removes.
prune_and_clear(s) ==
  LET Keep(g) == s.qemu_process[g] /\ s.returncode[g] = RcNone
  IN [s EXCEPT !.guests_before = s.guests,
               !.guests = SelectSeq(s.guests, Keep),
               !.qemu_process = [g \in DOMAIN @ |-> @[g] /\ Keep(g)]]

\* prune_dead_guests, lines 13-21: guests[:] = [the guests that pass].
prune_dead_guests(s) ==
  LET Keep(g) == s.qemu_process[g] /\ s.returncode[g] = RcNone
  IN [s EXCEPT !.guests_before = s.guests,
               !.guests = SelectSeq(s.guests, Keep)]

\* The bring-up that lets the guest run before the snapshot is taken.
main_after_start_resumed(s, g) ==
  save_snapshot([s EXCEPT !.cpu[g] = "running"], g)

\* Line 65, reached when start() returns.
main_after_start(s, g) == save_snapshot(s, g)

\* Lines 46-64: the next guest is constructed, appended and started.
bringup(s, i) == start_enter([s EXCEPT !.guests = Append(@, i)], i)

\* The round that prunes the list again before every load.
fuzz_next_pruning(s, k) ==
  LET t == prune_dead_guests(s)
  IN IF k > Len(t.guests) THEN [t EXCEPT !.mainpc = "round_sleep"]
     ELSE load_snapshot([t EXCEPT !.idx = k], t.guests[k])

\* Lines 72-74: the for loop of one round, from position k of the list.
fuzz_next(s, k) ==
  IF k > Len(s.guests) THEN [s EXCEPT !.mainpc = "round_sleep"]
  ELSE load_snapshot([s EXCEPT !.idx = k], s.guests[k])

\* Lines 70-72: round r begins with the pruning.
fuzz_round(s, r) ==
  fuzz_next(prune_dead_guests([s EXCEPT !.phase = "fuzz", !.round = r]), 1)

\* Lines 66 and 46/68: resume(), then the next guest or the first round.
main_after_save(s, g, lldbOk) ==
  LET t == resume(s, g, lldbOk)
  IN IF Raised(t) THEN t
     ELSE IF g < s.concurrent_vms THEN bringup(t, g + 1)
     ELSE fuzz_round(t, 0)

\* Lines 78-79: the final loop, from position k of the list.
final_next(s, k, killOk) ==
  IF k > Len(s.guests) THEN [s EXCEPT !.mainpc = "done"]
  ELSE LET g == s.guests[k]
           t == shutdown_enter([s EXCEPT !.idx = k, !.cur = g], g, "main", killOk)
       IN IF Raised(t) THEN t ELSE [t EXCEPT !.mainpc = "shutdown_disconnect"]

\* Lines 74-78: after the sleep, the next round or the final loop.
main_after_round_sleep(s, killOk) ==
  IF s.round + 1 < NumRounds THEN fuzz_round(s, s.round + 1)
  ELSE final_next(prune_dead_guests([s EXCEPT !.phase = "final"]), 1, killOk)

\* shutdown() resumes after disconnect() in the coordinator: in the final
\* loop line 80 follows, in start() line 302.
main_after_disconnect(s, g, sockOk, diskOk, rmtreeOk, killOk) ==
  LET t == shutdown_finish(s, g, sockOk, diskOk)
  IN IF Raised(t) THEN t
     ELSE IF s.phase = "final"
          THEN IF ~rmtreeOk THEN Fail(t, "OSError")
               ELSE final_next(t, s.idx + 1, killOk)
          ELSE main_after_start(t, g)

\* asyncio.run, line 83: once main() has ended, every task still pending is
\* cancelled.
RECURSIVE cancel_all_tasks(_, _)
cancel_all_tasks(s, pending) ==
  IF pending = {} THEN s
  ELSE LET g == CHOOSE h \in pending : TRUE
       IN cancel_all_tasks(cancel(s, g, "main"), pending \ {g})

\* @logger.catch, line 26: an exception leaving main() is logged and main()
\* ends; main() also ends by returning after line 80.
Catch(t) ==
  IF Raised(t)
  THEN cancel_all_tasks([t EXCEPT !.mainpc = "aborted", !.mainErr = t.exc,
                                  !.otherSeen = FALSE,
                                  !.exc = NoExc], DOMAIN t.monpc)
  ELSE IF t.mainpc = "done" THEN cancel_all_tasks(t, DOMAIN t.monpc)
  ELSE t

MainRunning == mainpc \notin {"done", "aborted"}
ProcessAlive(g) == qemu_process[g] /\ returncode[g] = RcNone

\* The replies of query-jobs: lists of descriptors with distinct ids.
ReplyIds(job_id) == {job_id, OtherJobId}
Descriptors(job_id) == [id : ReplyIds(job_id), status : JobStatuses]
Replies(job_id) ==
  { r \in UNION { [1..n -> Descriptors(job_id)] : n \in 0..MaxReplyLen } :
      \A i, j \in 1..Len(r) : i # j => r[i].id # r[j].id }


\* ------------------------------------------------------ initial state
\* main() has constructed the first guest, appended it and is suspended in
\* its start().
Fresh ==
  /\ phase = "bringup"
  /\ cur = 1
  /\ idx = 0
  /\ round = 0
  /\ conn_failures = 0
  /\ curJob = NoJobId
  /\ mainErr = NoExc
  /\ health_monitor = [g \in Guests |-> FALSE]
  /\ monpc = [g \in Guests |-> "none"]
  /\ lines = [g \in Guests |-> << >>]
  /\ job_counter = [g \in Guests |-> 0]
  /\ qmp = [g \in Guests |-> "idle"]
  /\ ovmf_process = [g \in Guests |-> FALSE]
  /\ gdb_port = [g \in Guests |-> 0]
  /\ cbCount = [g \in Guests |-> 0]
  /\ issued = [g \in Guests |-> << >>]
  /\ steps = [g \in Guests |-> {}]
  /\ sd = [g \in Guests |-> "none"]
  /\ termStatus = "none"
  /\ waitOutcome = "none"
  /\ lastExec = [guest |-> 0, cmd |-> "none", handle |-> TRUE]
  /\ guests_before = << >>
  /\ cpu = [g \in Guests |-> "none"]
  /\ lastRead = [g \in Guests |-> NoLine]
  /\ saved = [g \in Guests |-> FALSE]
  /\ otherSeen = FALSE
  /\ faults = 0
  /\ events = 0

Started ==
  /\ Fresh
  /\ guests = << 1 >>
  /\ mainpc = "mkdisk"
  /\ qemu_process = [g \in Guests |-> FALSE]
  /\ returncode = [g \in Guests |-> RcNone]

\* The run with the largest pool.
Init == concurrent_vms = NumGuests /\ Started

\* The run with the default pool, one guest.
InitDefault == concurrent_vms = DefaultVms /\ Started

\* ------------------------------------------------- coordinator steps
\* _create_qcow2_vmstate_disk returns or raises.
MainMkDisk ==
  /\ mainpc = "mkdisk"
  /\ \E diskOk \in BOOLEAN :
       Apply(Catch(start_disk_made(State, cur, diskOk)))

\* create_subprocess_exec returns or raises.
MainSpawn ==
  /\ mainpc = "spawn"
  /\ \E spawnOk \in BOOLEAN :
       Apply(Catch(start_spawned(State, cur, spawnOk)))

\* qmp_client.connect returns (only a running hypervisor accepts) or raises.
MainConnect ==
  /\ mainpc = "connect"
  /\ \E connOk \in BOOLEAN, dbgOk \in BOOLEAN, killOk \in BOOLEAN :
       /\ connOk => ProcessAlive(cur)
       /\ ~dbgOk => connOk      \* an outcome is drawn only where it is used
       /\ ~killOk => ~connOk
       /\ LET s == State
              t == IF connOk
                   THEN start_init_debugger([s EXCEPT !.qmp[cur] = "running"],
                                            cur, dbgOk)
                   ELSE start_connect_failed(s, cur, conn_failures, killOk)
              u == IF Raised(t) \/ t.mainpc \in {"connect_sleep", "shutdown_disconnect"}
                   THEN t
                   ELSE main_after_start(t, cur)
          IN Apply(Catch(u))

\* asyncio.sleep(1) of line 295 returns.
MainConnectSleep ==
  /\ mainpc = "connect_sleep"
  /\ \E dbgOk \in BOOLEAN :
       /\ LET t == start_after_sleep(State, cur, dbgOk)
              u == IF Raised(t) \/ t.mainpc = "connect" THEN t
                   ELSE main_after_start(t, cur)
          IN Apply(Catch(u))

\* execute("snapshot-save" / "snapshot-load") returns or raises.
MainSubmit ==
  /\ mainpc = "submit"
  /\ \E ok \in BOOLEAN :
       LET s == State
           t == IF ok THEN wait_job_enter(s, cur, curJob)
                ELSE execute_error(s, cur)
       IN Apply(Catch(t))

\* execute("query-jobs") returns a reply or raises.
MainPoll ==
  /\ mainpc = "poll"
  /\ \/ Apply(Catch(execute_error(State, cur)))
     \/ \E jobs \in Replies(curJob), lldbOk \in BOOLEAN :
          /\ ~lldbOk => curJob.kind = "save_snapshot"
          /\ LET t == wait_job_reply(State, cur, curJob, jobs)
                 u == IF Raised(t) \/ t.waitOutcome # "returned" THEN t
                      ELSE IF curJob.kind = "save_snapshot"
                           THEN main_after_save(t, cur, lldbOk)
                           ELSE fuzz_next(t, idx + 1)
             IN Apply(Catch(u))

\* asyncio.sleep(1) of line 74 returns.
MainRoundSleep ==
  /\ mainpc = "round_sleep"
  /\ \E killOk \in BOOLEAN :
       /\ ~killOk => round + 1 >= NumRounds
       /\ Apply(Catch(main_after_round_sleep(State, killOk)))

\* qmp_client.disconnect() returns or raises inside the coordinator's
\* shutdown().
MainDisconnect ==
  /\ mainpc = "shutdown_disconnect"
  /\ \E sockOk \in BOOLEAN, diskOk \in BOOLEAN, rmtreeOk \in BOOLEAN,
        killOk \in BOOLEAN :
       /\ ~diskOk => sockOk     \* the first failure decides the outcome
       /\ ~rmtreeOk => (sockOk /\ diskOk)
       /\ ~killOk => (sockOk /\ diskOk /\ rmtreeOk)
       /\ Apply(Catch(main_after_disconnect(State, cur, sockOk, diskOk,
                                            rmtreeOk, killOk)))

\* ----------------------------------------------------- monitor steps
\* readline() returns a line, or the empty line: the stream has ended.  The
\* stream ends when the process exits, which the event loop may not have
\* seen yet (returncode is still None); that end is an event of its own.
MonitorRead(g) ==
  /\ monpc[g] = "read"
  /\ \E message \in MonitorLines \cup {EndOfStream}, killOk \in BOOLEAN :
       /\ ~killOk => returncode[g] # RcNone
       /\ Apply(monitor_line([State EXCEPT !.events =
                                IF message = EndOfStream /\ returncode[g] # RcNone
                                THEN @ ELSE @ + 1],
                             g, message, killOk))

\* The monitor's own shutdown() resumes after disconnect().
MonitorDisconnect(g) ==
  /\ monpc[g] = "disconnect"
  /\ \E sockOk \in BOOLEAN, diskOk \in BOOLEAN :
       /\ ~diskOk => sockOk
       /\ Apply(monitor_resume_shutdown(State, g, sockOk, diskOk))

\* ------------------------------------------------- environment steps
\* The hypervisor process exits by itself.
ProcExit(g) ==
  /\ MainRunning
  /\ ProcessAlive(g)
  /\ \E code \in ExitCodes :
       Apply([State EXCEPT !.returncode[g] = code, !.events = @ + 1])

Next ==
  \/ MainMkDisk
  \/ MainSpawn
  \/ MainConnect
  \/ MainConnectSleep
  \/ MainSubmit
  \/ MainPoll
  \/ MainRoundSleep
  \/ MainDisconnect
  \/ \E g \in Guests : MonitorRead(g)
  \/ \E g \in Guests : MonitorDisconnect(g)
  \/ \E g \in Guests : ProcExit(g)

Spec == Init /\ [][Next]_vars

SpecDefault == InitDefault /\ [][Next]_vars

\* ------------------------------------------- prune_dead_guests alone
Range(f) == { f[i] : i \in DOMAIN f }

PruneGuests == 1..MaxPruneGuests

\* Any list of distinct guests, each with any handle and any returncode.
InitPrune ==
  /\ Fresh
  /\ concurrent_vms = MaxPruneGuests
  /\ mainpc = "prune"
  /\ guests \in { l \in UNION { [1..n -> PruneGuests] : n \in 0..MaxPruneGuests } :
                    \A i, j \in 1..Len(l) : i # j => l[i] # l[j] }
  /\ qemu_process \in [PruneGuests -> BOOLEAN]
  /\ returncode \in [PruneGuests -> {RcNone} \cup ExitCodes]

PruneStep ==
  /\ mainpc = "prune"
  /\ Apply([prune_dead_guests(State) EXCEPT !.mainpc = "pruned"])

SpecPrune == InitPrune /\ [][PruneStep]_vars

\* ------------------------------------------ the monitor's loop alone
\* Lines a hypervisor may write: the markers in several spellings, and
\* lines that come close to a marker without containing one.
ClassifyLines ==
  { << "o", "k" >>,
    << "w", "a", "r", "n" >>,
    << "e", "r", "r" >>,
    << "r", "o", "r", "r", "e" >>,
    << "i", "n", "v", "a", "l", "d" >>,
    << "c", "a", "n", "n", "o", "t", "s", "e", "t", "u", "p" >>,
    << "e", "r", "r", "o", "r" >>,
    << "E", "r", "r", "o", "r" >>,
    << "E", "R", "R", "O", "R" >>,
    << "x", "e", "R", "r", "O", "r", "s" >>,
    << "I", "n", "v", "a", "l", "i", "d" >>,
    << "C", "a", "n", "n", "o", "t", " ", "S", "e", "t", " ", "U", "p" >> }

\* Guest 1 has been spawned and its monitor is suspended in readline; the
\* coordinator is suspended in connect and is not scheduled.  The process
\* runs or has exited with lines still to be read.
InitClassify ==
  /\ concurrent_vms = DefaultVms
  /\ guests = << 1 >>
  /\ phase = "bringup"
  /\ mainpc = "classify"
  /\ cur = 1
  /\ idx = 0
  /\ round = 0
  /\ conn_failures = 0
  /\ curJob = NoJobId
  /\ mainErr = NoExc
  /\ qemu_process = [g \in Guests |-> g = 1]
  /\ returncode \in { f \in [Guests -> {RcNone} \cup ExitCodes] :
                        \A g \in Guests \ {1} : f[g] = RcNone }
  /\ health_monitor = [g \in Guests |-> g = 1]
  /\ monpc = [g \in Guests |-> IF g = 1 THEN "read" ELSE "none"]
  /\ lines = [g \in Guests |-> << >>]
  /\ job_counter = [g \in Guests |-> 0]
  /\ qmp = [g \in Guests |-> "idle"]
  /\ ovmf_process = [g \in Guests |-> FALSE]
  /\ gdb_port = [g \in Guests |-> IF g = 1 THEN PortStart ELSE 0]
  /\ cpu = [g \in Guests |-> IF g = 1 THEN "halted" ELSE "none"]
  /\ cbCount = [g \in Guests |-> 0]
  /\ issued = [g \in Guests |-> << >>]
  /\ steps = [g \in Guests |-> {}]
  /\ sd = [g \in Guests |-> "none"]
  /\ termStatus = "none"
  /\ waitOutcome = "none"
  /\ lastExec = [guest |-> 0, cmd |-> "none", handle |-> TRUE]
  /\ guests_before = << >>
  /\ lastRead = [g \in Guests |-> NoLine]
  /\ saved = [g \in Guests |-> FALSE]
  /\ otherSeen = FALSE
  /\ faults = 0
  /\ events = 0

\* readline() returns one of the lines.
ClassifyRead ==
  /\ mainpc = "classify"
  /\ monpc[1] = "read"
  /\ \E message \in ClassifyLines, killOk \in BOOLEAN :
       Apply(monitor_line([State EXCEPT !.events = @ + 1], 1, message, killOk))

SpecClassify == InitClassify /\ [][ClassifyRead]_vars


\* ------------------------------------------------------------ claims
\* C1: for every guest, under every interleaving of its monitor, the
\* coordinator's shutdown() calls and the process exiting, the degradation
\* callback is invoked at most once.
C1_CallbackAtMostOnce == \A g \in Guests : cbCount[g] <= 1

\* The callback has fired and the monitor has torn the guest down.
C1_Witness ==
  \E g \in Guests : cbCount[g] = 1 /\ monpc[g] = "done" /\ sd[g] = "returned"

\* C2: every health degradation, a fatal line or the process exiting with a
\* non-zero code, leads to exactly one invocation of the callback: once the
\* monitor has stopped watching a process that exited non-zero, the callback
\* has been invoked once.
C2_DegradationSurfaced ==
  \A g \in Guests :
    (monpc[g] = "done" /\ returncode[g] \notin {RcNone, "0"}) => cbCount[g] = 1

\* C3: when all 3 connection attempts of start() have failed, start() raises
\* ConnectionError without attaching the debugger, and the process it spawned
\* is terminated.
C3_ConnectionErrorRaised ==
  (conn_failures = ConnectAttempts /\ mainpc # "connect_sleep")
    => /\ mainErr.type = "ConnectionError"
       /\ ~ovmf_process[cur]
       /\ "kill" \in steps[cur]

\* C4: a guest that fails during the fuzzing loop is only removed from the
\* pool: the coordinator does not come to a guest whose handle is absent, and
\* the rounds go on without error.
C4_CampaignSurvives ==
  phase = "fuzz" => mainErr.type # "AssertionError"

Pos(l, g) == CHOOSE i \in 1..Len(l) : l[i] = g

\* The guests of `after` are guests of `before`, in the order of `before`.
SameOrder(before, after) ==
  /\ Range(after) \subseteq Range(before)
  /\ \A i, j \in 1..Len(after) :
       i < j => Pos(before, after[i]) < Pos(before, after[j])

C6_JobIdsIncrease ==
  \A g \in Guests :
    \A i, j \in 1..Len(issued[g]) :
      i < j => /\ issued[g][i].n < issued[g][j].n
               /\ issued[g][i] # issued[g][j]

\* A guest has issued its save and every round's load, and is shut down.
C6_Witness ==
  \E g \in Guests : Len(issued[g]) = 1 + NumRounds /\ sd[g] = "returned"

\* C7: the first reply in which the job is terminal ends the wait: concluded
\* makes the call return, failed, aborted or error makes it raise an error
\* carrying that job's descriptor, and no query follows.
C7_TerminalEndsWait ==
  /\ termStatus = "concluded" => waitOutcome = "returned"
  /\ termStatus \in FailedStatuses =>
       /\ waitOutcome = "raised"
       /\ mainpc = "aborted"
       /\ mainErr = [type |-> "RuntimeError",
                     job |-> [id |-> curJob, status |-> termStatus]]
       /\ lastExec.cmd = "query-jobs"
  /\ mainpc = "poll" => termStatus = "none"

\* A job was seen aborted and the call raised with its descriptor.
C7_Witness ==
  /\ termStatus = "aborted"
  /\ mainpc = "aborted"
  /\ mainErr.job = [id |-> curJob, status |-> "aborted"]
  /\ curJob.kind = "load_snapshot"

\* C8: shutdown() attempts every cleanup step even if one of them fails.
C8_AllStepsAttempted ==
  \A g \in Guests : sd[g] \in {"returned", "raised"} => steps[g] = CleanupSteps

\* C9: no control-protocol command is issued to a guest whose process handle
\* is absent.
C9_NoCommandToDeadGuest == lastExec.handle

\* C10: a guest's handle goes from present to absent only in a step of its
\* monitor that enters shutdown(), or in a step of the coordinator that
\* enters shutdown() of that guest.
C10_HandleClearedByTeardown ==
  [][ \A g \in Guests :
        (qemu_process[g] /\ ~qemu_process'[g]) =>
          \/ (monpc[g] = "read" /\ monpc'[g] = "disconnect")
          \/ (mainpc' = "shutdown_disconnect" /\ cur' = g /\ sd'[g] = "running") ]_vars

\* One guest's handle was cleared by its monitor, another's by the
\* coordinator's shutdown().
C10_Witness ==
  \E g, h \in Guests :
    /\ g # h
    /\ monpc[g] = "done" /\ ~qemu_process[g]
    /\ mainpc = "shutdown_disconnect" /\ cur = h /\ ~qemu_process[h]


\* C11: when the monitor reads the end of the stream it calls shutdown(),
\* does not invoke the callback, and reads no further line.
C11_EndOfStreamIsCleanExit ==
  \A g \in Guests :
    lastRead[g] = EndOfStream =>
      /\ cbCount[g] = 0
      /\ monpc[g] \in {"disconnect", "done", "failed"}
      /\ sd[g] # "none"
      /\ "detach" \in steps[g]

\* A process exited with code 0, its monitor read the end of the stream and
\* has torn the guest down.
C11_Witness ==
  \E g \in Guests :
    /\ lastRead[g] = EndOfStream
    /\ returncode[g] = "0"
    /\ monpc[g] = "done"
    /\ sd[g] = "returned"

\* C12: once a guest's monitor task has been cancelled, that task performs
\* no further side effect, also when the cancellation comes from shutdown()
\* running inside the monitor task: a monitor that has gone through the
\* cancel step of its own shutdown() has attempted no later cleanup step.
C12_NoEffectAfterCancel ==
  \A g \in Guests :
    (monpc[g] \in {"disconnect", "done", "failed"} /\ "cancel" \in steps[g])
      => steps[g] \cap {"kill", "disconnect", "rm_sock", "rm_disk"} = {}

\* C13: the list of guests changes only in a step of the coordinator, and
\* never while the coordinator is suspended in a load_snapshot of a round.
C13_GuestsChangeBetweenRounds ==
  [][ guests' # guests =>
        /\ (mainpc' # mainpc \/ round' # round \/ cur' # cur)
        /\ mainpc \in {"poll", "round_sleep"}
        /\ ~(phase = "fuzz" /\ mainpc \in {"submit", "poll"}) ]_vars

\* Between two rounds the pruning has removed a guest.
C13_Witness ==
  /\ phase = "fuzz"
  /\ round >= 1
  /\ Len(guests) < Len(guests_before)

\* C14: the control channel of a guest is not disconnected by another task
\* while a request of the coordinator on it is outstanding.
C14_ChannelNotClosedUnderRequest ==
  \A g \in Guests :
    (mainpc \in {"submit", "poll"} /\ cur = g) => qmp[g] # "closed"

\* C15: while the save of "reset_vector" is outstanding the guest is halted;
\* a guest runs only after its save has returned, and a load is issued to a
\* guest only after its save has returned.
C15_SaveWhileHalted ==
  \A g \in Guests :
    /\ (mainpc \in {"submit", "poll"} /\ cur = g /\ curJob.kind = "save_snapshot")
         => cpu[g] = "halted"
    /\ cpu[g] = "running" => saved[g]
    /\ \A i \in 1..Len(issued[g]) :
         issued[g][i].kind = "load_snapshot" => saved[g]

\* A guest was saved while halted, resumed, and a load was issued to it.
C15_Witness ==
  \E g \in Guests :
    /\ saved[g]
    /\ cpu[g] = "running"
    /\ Len(issued[g]) >= 2
    /\ issued[g][2].kind = "load_snapshot"


\* Two characters that are equal or differ only in case.
SameLetter(a, b) ==
  a = b \/ \E k \in 1..Len(Upper) : {a, b} = {Upper[k], Lower[k]}

\* The message contains the marker, whatever the case of its letters.
HasMarker(message, marker) ==
  \E i \in 0..(Len(message) - Len(marker)) :
    \A j \in 1..Len(marker) : SameLetter(message[i + j], marker[j])

\* C16: a line read is fatal (the callback is invoked and the monitor stops
\* reading) if and only if it contains "error", "invalid" or "cannot set up"
\* in any case, or the process has exited with a non-zero code; after any
\* other line the monitor is reading again and nothing else has happened.
C16_FatalIffMarkerOrExit ==
  \A g \in Guests :
    lastRead[g] \notin {NoLine, EndOfStream} =>
      IF \/ \E m \in Markers : HasMarker(lastRead[g], m)
         \/ returncode[g] \notin {RcNone, "0"}
      THEN monpc[g] # "read" /\ cbCount[g] = 1
      ELSE monpc[g] = "read" /\ cbCount[g] = 0 /\ sd[g] = "none"

\* After a normal line, a line with a marker in mixed case inside it was
\* fatal, with the process still running.
C16_Witness ==
  \E g \in Guests :
    /\ lastRead[g] = << "x", "e", "R", "r", "O", "r", "s" >>
    /\ Len(lines[g]) = 2
    /\ returncode[g] = RcNone
    /\ cbCount[g] = 1
    /\ monpc[g] = "disconnect"

\* C17: the number of lines the monitor keeps never exceeds a fixed bound:
\* the buffer never holds as many lines as a run can produce.
C17_BufferBounded == \A g \in Guests : Len(lines[g]) < MaxEvents

\* C18: a step in which start() raises because the debugger could not
\* connect leaves the guest's handle, its monitor and its shutdown progress
\* as they were, and a channel connected in that start() stays connected.
C18_DebuggerFailureKeepsGuest ==
  [][ (mainpc \in {"connect", "connect_sleep"} /\ mainpc' = "aborted"
         /\ mainErr'.type = "RuntimeError")
      => /\ qemu_process'[cur] = qemu_process[cur]
         /\ health_monitor'[cur] = health_monitor[cur]
         /\ sd'[cur] = sd[cur]
         /\ steps'[cur] = steps[cur]
         /\ qmp'[cur] # "closed"
         /\ mainpc = "connect" =>
              (qemu_process'[cur] /\ health_monitor'[cur] /\ qmp'[cur] = "running") ]_vars

\* start() raised at the attach: the guest has a handle, a monitor and a
\* connected channel, and no debugger process.
C18_Witness ==
  /\ mainpc = "aborted"
  /\ mainErr.type = "RuntimeError"
  /\ issued[cur] = << >>
  /\ qemu_process[cur]
  /\ health_monitor[cur]
  /\ qmp[cur] = "running"
  /\ ~ovmf_process[cur]
  /\ sd[cur] = "none"

\* C19: a wait ends, by returning or by raising the job, only on a
\* descriptor of its own job: it has returned only if its job was seen
\* concluded, raised only if its job was seen failed, aborted or error, and
\* it has ended once its job was seen terminal.
C19_OwnJobEndsWait ==
  /\ waitOutcome = "returned" => termStatus = "concluded"
  /\ waitOutcome = "raised" =>
       (termStatus \in FailedStatuses /\ mainErr.job.id = curJob)
  /\ termStatus # "none" => waitOutcome # "none"

\* A reply showed another job terminal, the wait went on, and it returned
\* when its own job was seen concluded.
C19_Witness ==
  /\ otherSeen
  /\ termStatus = "concluded"
  /\ waitOutcome = "returned"

\* C20: a guest has a monitor task attached if and only if its process
\* handle is present.
C20_MonitorIffHandle ==
  \A g \in Guests : health_monitor[g] <=> qemu_process[g]


\* C21: in the final loop shutdown() is entered for a guest only while its
\* handle is present, under every interleaving with the monitors: the
\* assertion at the entry of shutdown() never fails in the coordinator.
C21_FinalShutdownAsserts ==
  phase = "final" => mainErr.type # "AssertionError"

=============================================================================
